---- MODULE Spec2Model ----
(***************************************************************************)
(* Model of src/src/data/components/ai4eps.py: the Ai4epsDataset sample     *)
(* construction (window extraction, phase-index remapping, lazy HDF5       *)
(* handle, optional stacking) and split_train_test_val_for_ai4eps.          *)
(*                                                                         *)
(* Conventions.  Python lists are TLA+ sequences; Python index i is TLA+   *)
(* index i+1.  A waveform tensor is modelled by one representative channel *)
(* (every channel is cropped with the same time slice) whose values are    *)
(* the rationals num[t]/den, kept as [num |-> <<..>>, den |-> d].          *)
(* A raised Python exception is an outcome whose status names it.          *)
(***************************************************************************)
EXTENDS Integers, Sequences, FiniteSets, TLC

VARIABLES
    self,       \* the Ai4epsDataset instance: its attributes, after __init__
    file,       \* content of waveform.h5: (event_id, station_id) -> dataset
    opens,      \* how many times h5py.File(...) has been called
    ret,        \* the last call on the instance: what it returned or raised,
                \* its local window bounds, and whether the file was open
                \* when it was made
    made,       \* history: the attributes the instance was constructed with
    table,      \* phase_picks.csv: the (event_id, station_id) of each row
    ratio,      \* the ratio argument of the splitter, in units of 1/RatioDen
    runs,       \* how many times the splitter has been called
    split,      \* what the last splitter call returned
    log         \* history: seed -> what the first call with that seed returned

vars == <<self, file, opens, ret, made, table, ratio, runs, split, log>>

dsVars == <<self, file, opens, ret, made>>
spVars == <<table, ratio, runs, split, log>>

----------------------------------------------------------------------------
(* Bounds of the model *)

MaxPicks == 2       \* picks in the record drawn by ItemInit
MaxPickIndex == 1   \* their raw indices are 0..MaxPickIndex
MaxOffset == 2      \* first_arrival_index_in_final_window_if_no_shift in 0..MaxOffset
MaxWindow == 3      \* window_length_in_npts in 1..MaxWindow

\* samples in a raw waveform: as many as the longest window
RawLen == MaxWindow

(* Program constant *)
Sentinel == -999999999

----------------------------------------------------------------------------
(* Python built-ins used by the code *)

Abs(x) == IF x < 0 THEN -x ELSE x
Max2(a, b) == IF a >= b THEN a ELSE b
Min2(a, b) == IF a <= b THEN a ELSE b

\* list[i]: defined for -len <= i < len, a negative i counts from the end
PyIndexOk(list, i) == -Len(list) <= i /\ i < Len(list)
PyIndex(list, i) == IF i >= 0 THEN list[i + 1] ELSE list[Len(list) + i + 1]

\* where a slice bound lands: a negative bound counts from the end, then the
\* bound is clamped to 0..len
PyBound(n, b) == IF b < 0 THEN Max2(n + b, 0) ELSE Min2(b, n)

\* list[start:end]
PySlice(list, start, end) ==
    LET lo == PyBound(Len(list), start)
        hi == PyBound(Len(list), end)
    IN  IF lo >= hi THEN <<>> ELSE SubSeq(list, lo + 1, hi)

\* min(list) of a non-empty list
PyMin(list) ==
    CHOOSE m \in {list[k] : k \in 1..Len(list)} :
        \A k \in 1..Len(list) : m <= list[k]

\* x in list
PyIn(x, list) == \E k \in 1..Len(list) : list[k] = x

\* list.index(x): the position (from 0) of the first occurrence
PyListIndex(list, x) ==
    (CHOOSE k \in 1..Len(list) :
        list[k] = x /\ \A j \in 1..(k - 1) : list[j] # x) - 1

\* as Pop, the keys forgotten
PopNothing(d, keys) == d

\* dict.pop(key, None) for each key of keys
Pop(d, keys) == [k \in (DOMAIN d) \ keys |-> d[k]]

----------------------------------------------------------------------------
(* Tensors *)

Tensor(values) == [num |-> values, den |-> 1]

\* tensor[:, start:end]: the slice runs along the time axis
TensorSlice(t, start, end) == [t EXCEPT !.num = PySlice(t.num, start, end)]

TensorLen(t) == Len(t.num)

----------------------------------------------------------------------------
(* src.data.components.utils: generate_label, normalize_waveform, stack_rand.
   They are imported by ai4eps.py (lines 14-15) and modelled after sections
   4.3, 4.4 and 4.5 of the specification. *)

NoBump == -1

\* One row per phase, window_length entries per row.  The entry at t of a
\* present phase is |t - i|, which determines the curve value under either
\* shape (exp(-d^2/(2 sigma^2)) or max(0, 1 - d/(w/2)), both decreasing in d);
\* the row of an absent phase (sentinel index) is identically zero: NoBump.
generate_label(label_shape, label_width, window_length, phase_index) ==
    [shape |-> label_shape,
     width |-> label_width,
     rows  |-> [k \in 1..Len(phase_index) |->
                  [t \in 1..window_length |->
                      IF phase_index[k] = Sentinel
                      THEN NoBump
                      ELSE Abs((t - 1) - phase_index[k])]]]

MaxAbs(values) ==
    IF values = <<>> THEN 0
    ELSE CHOOSE m \in {Abs(values[k]) : k \in 1..Len(values)} :
            \A k \in 1..Len(values) : m >= Abs(values[k])

\* Rescale to unit scale (maximum absolute value 1); a silent channel is left
\* alone.  The label is not touched.
normalize_waveform(sample) ==
    LET m == MaxAbs(sample.data.num)
    IN  [sample EXCEPT !.data.den = IF m = 0 THEN 1 ELSE m]

\* the elementwise maximum of two curves: the smaller distance wins
MaxCurve(a, b) ==
    [t \in 1..Len(a) |->
        IF a[t] = NoBump THEN b[t]
        ELSE IF b[t] = NoBump THEN a[t]
        ELSE Min2(a[t], b[t])]

StackShapesOk(a, b) ==
    /\ TensorLen(a.data) = TensorLen(b.data)
    /\ Len(a.phase_index) = Len(b.phase_index)

\* waveform: elementwise sum; label: elementwise maximum; phase index: that of
\* the sample which has the phase, the first sample preferred
stack_rand(a, b, label_width) ==
    [a EXCEPT
        !.data = [num |-> [t \in 1..TensorLen(a.data) |->
                              a.data.num[t] * b.data.den + b.data.num[t] * a.data.den],
                  den |-> a.data.den * b.data.den],
        !.phase_index = [k \in 1..Len(a.phase_index) |->
                            IF a.phase_index[k] # Sentinel
                            THEN a.phase_index[k] ELSE b.phase_index[k]],
        !.label.rows = [k \in 1..Len(a.label.rows) |->
                            MaxCurve(a.label.rows[k], b.label.rows[k])]]

----------------------------------------------------------------------------
(* The transform hook: self.transform, a caller-supplied callable.  Following
   section 4.6 of the specification, a hook receives the sample with the
   proposed window bounds and returns it with a possibly modified waveform
   and possibly modified bounds. *)

NoHook == [kind |-> "none"]

Hooks ==
    { NoHook,
      [kind |-> "jitter", dstart |-> 1, dend |-> 1, gain |-> 2] }

CallTransform(hook, sample) ==
    [sample EXCEPT
        !.start_index = @ + hook.dstart,
        !.end_index = @ + hook.dend,
        !.data.num = [t \in 1..Len(@) |-> hook.gain * @[t]]]

----------------------------------------------------------------------------
(* Ai4epsDataset *)

None == 0           \* self._handler before the file is opened

NoSample == [none |-> TRUE]

\* __init__(**args): stores its arguments; the file is not opened
Init__(args) ==
    [transform |-> args.transform,
     label_shape |-> args.label_shape,
     label_width_in_npts |-> args.label_width_in_npts,
     window_length_in_npts |-> args.window_length_in_npts,
     phases |-> args.phases,
     first_arrival_index_in_final_window_if_no_shift |->
        args.first_arrival_index_in_final_window_if_no_shift,
     random_stack_two_waveforms_ratio |-> args.random_stack_two_waveforms_ratio,
     _handler |-> None,
     index_to_waveform_id |-> args.index_to_waveform_id]

\* the attributes __init__ takes from its arguments (all but _handler)
Config(s) == [k \in (DOMAIN s) \ {"_handler"} |-> s[k]]

\* as handler, without the test of _handler against None
handlerReopens(s, n) == [inst |-> [s EXCEPT !._handler = n + 1], opens |-> n + 1]

\* the handler property: h5py.File is called when _handler is None, and only
\* then; n is the number of h5py.File calls so far.  The handle is named by
\* the number of the call that made it.
handler(s, n) ==
    IF s._handler = None
    THEN [inst |-> [s EXCEPT !._handler = n + 1], opens |-> n + 1]
    ELSE [inst |-> s, opens |-> n]

\* __len__
Len__(s) == Len(s.index_to_waveform_id)

\* as MinIndex, taking the first pick listed for the earliest one
MinIndexFirstListed(phase_index) ==
    IF phase_index = <<>>
    THEN [raised |-> TRUE, value |-> 0]
    ELSE [raised |-> FALSE, value |-> phase_index[1]]

\* as MinIndex, with min(..., default=0)
MinIndexDefault(phase_index) ==
    IF phase_index = <<>>
    THEN [raised |-> FALSE, value |-> 0]
    ELSE [raised |-> FALSE, value |-> PyMin(phase_index)]

\* line 87: min(sample["phase_index"]) over all the raw picks of the record;
\* min() of an empty list raises ValueError
MinIndex(phase_index) ==
    IF phase_index = <<>>
    THEN [raised |-> TRUE, value |-> 0]
    ELSE [raised |-> FALSE, value |-> PyMin(phase_index)]

\* lines 88-90: the proposed window
WindowBounds(s, min_index) ==
    LET start_index == min_index - s.first_arrival_index_in_final_window_if_no_shift
        end_index == min_index - s.first_arrival_index_in_final_window_if_no_shift
                        + s.window_length_in_npts
    IN  <<start_index, end_index>>

\* as CropBounds, reading the bounds back from the sample the transform returned
CropBoundsReturned(sample, start_index, end_index) ==
    <<sample.start_index, sample.end_index>>

\* lines 99-102: the bounds the crop and the remapping use are the local
\* variables start_index, end_index, whatever the transform returned
CropBounds(sample, start_index, end_index) == <<start_index, end_index>>

\* as ExpandedPhaseIndex, the last pick of a type taken for the first
ExpandedPhaseIndexLast(phases, phase_type, phase_index) ==
    [k \in 1..Len(phases) |->
        IF PyIn(phases[k], phase_type)
        THEN phase_index[CHOOSE j \in 1..Len(phase_type) :
                            /\ phase_type[j] = phases[k]
                            /\ \A i \in (j + 1)..Len(phase_type) :
                                  phase_type[i] # phases[k]]
        ELSE Sentinel]

\* lines 104-111
ExpandedPhaseIndex(phases, phase_type, phase_index) ==
    [k \in 1..Len(phases) |->
        IF PyIn(phases[k], phase_type)
        THEN PyIndex(phase_index, PyListIndex(phase_type, phases[k]))
        ELSE Sentinel]

\* lines 79-122, once the record is read
BuildSample(s, event_id, station_id, rec, min_index) ==
    LET sample0 == [event_id |-> event_id,
                    network |-> rec.network,
                    station_id |-> station_id,
                    data |-> Tensor(rec.data),
                    phase_index |-> rec.phase_index,
                    phase_type |-> rec.phase_type]
        w == WindowBounds(s, min_index)
        sample1 == [k \in (DOMAIN sample0) \cup {"start_index", "end_index"} |->
                      IF k = "start_index" THEN w[1]
                      ELSE IF k = "end_index" THEN w[2]
                      ELSE sample0[k]]
        sample2 == IF s.transform # NoHook
                   THEN CallTransform(s.transform, sample1)
                   ELSE sample1
        b == CropBounds(sample2, w[1], w[2])
        data == TensorSlice(sample2.data, b[1], b[2])
        shifted == [k \in 1..Len(sample2.phase_index) |->
                       sample2.phase_index[k] - b[1]]
        expanded == ExpandedPhaseIndex(s.phases, sample2.phase_type, shifted)
        sample3 == [sample2 EXCEPT !.data = data,
                                   !.phase_index = expanded,
                                   !.phase_type = s.phases]
        label == generate_label(s.label_shape, s.label_width_in_npts,
                                s.window_length_in_npts, expanded)
        sample4 == [k \in (DOMAIN sample3) \cup {"label"} |->
                      IF k = "label" THEN label ELSE sample3[k]]
    IN  [sample |-> normalize_waveform(sample4), window |-> w]

\* get_item_without_stack(idx) on instance s over the file f, n files opened
\* so far: the outcome, the local variables (start_index, end_index) when
\* they were computed, the instance afterwards and the files opened
get_item_without_stack(s, f, n, idx) ==
    IF ~PyIndexOk(s.index_to_waveform_id, idx)
    THEN [status |-> "IndexError", sample |-> NoSample, window |-> <<>>,
          inst |-> s, opens |-> n]
    ELSE
    LET key == PyIndex(s.index_to_waveform_id, idx)
        h1 == handler(s, n)                     \* line 76
    IN  IF key \notin DOMAIN f
        THEN [status |-> "KeyError", sample |-> NoSample, window |-> <<>>,
              inst |-> h1.inst, opens |-> h1.opens]
        ELSE
        LET h == handler(h1.inst, h1.opens)     \* line 77
            m == MinIndex(f[key].phase_index)
        IN  IF m.raised
            THEN [status |-> "ValueError", sample |-> NoSample, window |-> <<>>,
                  inst |-> h.inst, opens |-> h.opens]
            ELSE
            LET built == BuildSample(h.inst, key[1], key[2], f[key], m.value)
            IN  [status |-> "ok", sample |-> built.sample, window |-> built.window,
                 inst |-> h.inst, opens |-> h.opens]

\* torch.rand(1) < ratio, with the ratio and the draw u in hundredths:
\* u ranges over [0, 1)
RandDraws == {0, 99}

\* __getitem__(idx): u is the draw of torch.rand, random_idx that of
\* torch.randint(0, len(self)).  The sum of two waveforms of different
\* lengths (crops that the slice truncated differently) raises RuntimeError.
getitem(s, f, n, idx, u, random_idx) ==
    LET cur == get_item_without_stack(s, f, n, idx)
    IN  IF cur.status # "ok" THEN cur
        ELSE IF ~(u < s.random_stack_two_waveforms_ratio)
        THEN [cur EXCEPT !.sample =
                Pop(normalize_waveform(cur.sample), {"start_index", "end_index"})]
        ELSE
        LET rnd == get_item_without_stack(cur.inst, f, cur.opens, random_idx)
        IN  IF rnd.status # "ok" THEN [rnd EXCEPT !.window = cur.window]
            ELSE IF ~StackShapesOk(cur.sample, rnd.sample)
            THEN [rnd EXCEPT !.status = "RuntimeError", !.sample = NoSample,
                             !.window = cur.window]
            ELSE [rnd EXCEPT !.window = cur.window, !.sample =
                    Pop(normalize_waveform(
                            stack_rand(cur.sample, rnd.sample, s.label_width_in_npts)),
                        {"start_index", "end_index"})]

----------------------------------------------------------------------------
(* What the instance is constructed with, and the file it reads *)

LabelWidth == 2     \* label_width_in_npts

K1 == <<"e1", "A01">>
K2 == <<"e1", "A02">>
K3 == <<"e2", "A01">>
K4 == <<"e2", "A02">>      \* listed by an index list, absent from the file

PhaseTypes == {"P", "S", "Pn"}
PhaseLists == { <<"P", "S", "PS">>, <<"S", "P">> }
LabelShapes == {"gaussian", "triangle"}
Ratios == {0, 50}
IndexLists == { <<>>, <<K1, K2>>, <<K2, K4, K3>> }

Record(data, picks) ==
    [data |-> data,
     network |-> "XX",
     phase_index |-> [k \in 1..Len(picks) |-> picks[k][2]],
     phase_type |-> [k \in 1..Len(picks) |-> picks[k][1]]]

\* the pick lists of a record: at most MaxPicks picks, of any type, in any
\* order
PickLists ==
    UNION { [1..n -> PhaseTypes \X (0..MaxPickIndex)] : n \in 0..MaxPicks }

\* a waveform.h5 with a regular record, a record whose earliest pick is of a
\* type outside the canonical lists and whose P is picked twice, and a record
\* without picks
TheFile ==
    (K1 :> Record([t \in 1..RawLen |-> t],
                  << <<"P", 1>>, <<"S", RawLen - 1>> >>))
    @@ (K2 :> Record([t \in 1..(RawLen + 1) |-> 0 - t],
                  << <<"S", 2>>, <<"P", 1>>, <<"Pn", 0>>, <<"P", 2>> >>))
    @@ (K3 :> Record([t \in 1..RawLen |-> 0], <<>>))

NoInstance == [none |-> TRUE]
NoCall == [op |-> "none"]
NoSplit == [none |-> TRUE]

Constructed == self # NoInstance

SplitIdle ==
    /\ table = <<>>
    /\ ratio = <<0, 0>>
    /\ runs = 0
    /\ split = NoSplit
    /\ log = <<>>

Init ==
    /\ self = NoInstance
    /\ file = TheFile
    /\ opens = 0
    /\ ret = NoCall
    /\ made = NoInstance
    /\ SplitIdle

\* Ai4epsDataset(...)
Construct ==
    /\ ~Constructed
    /\ \E index \in IndexLists, transform \in Hooks, shape \in LabelShapes,
          window \in 1..MaxWindow, phases \in PhaseLists,
          offset \in 0..MaxOffset, p \in Ratios :
          /\ self' = Init__(
                [index_to_waveform_id |-> index,
                 transform |-> transform,
                 label_shape |-> shape,
                 label_width_in_npts |-> LabelWidth,
                 window_length_in_npts |-> window,
                 phases |-> phases,
                 first_arrival_index_in_final_window_if_no_shift |-> offset,
                 random_stack_two_waveforms_ratio |-> p])
          /\ made' = Config(self')
    /\ UNCHANGED <<file, opens, ret, spVars>>

\* len(dataset)
Size ==
    /\ Constructed
    /\ ret' = [op |-> "len", idx |-> 0, status |-> "ok",
               value |-> Len__(self), window |-> <<>>,
               warm |-> self._handler # None]
    /\ UNCHANGED <<self, file, opens, made, spVars>>

Called(op, idx, o) ==
    /\ self' = o.inst
    /\ opens' = o.opens
    /\ ret' = [op |-> op, idx |-> idx, status |-> o.status,
               value |-> o.sample, window |-> o.window,
               warm |-> self._handler # None]
    /\ UNCHANGED <<file, made, spVars>>

\* dataset.get_item_without_stack(idx)
GetItemWithoutStack(idx) ==
    /\ Constructed
    /\ Called("get_item_without_stack", idx,
              get_item_without_stack(self, file, opens, idx))

\* dataset[idx]
GetItem(idx) ==
    /\ Constructed
    /\ \E u \in RandDraws, random_idx \in 0..Max2(Len__(self) - 1, 0) :
          Called("getitem", idx, getitem(self, file, opens, idx, u, random_idx))

\* the indices tried: every valid one and one beyond each end
Indices ==
    IF Constructed THEN (0 - Len__(self) - 1)..Len__(self) ELSE {}

Next ==
    \/ Construct
    \/ Size
    \/ \E idx \in Indices : GetItemWithoutStack(idx)
    \/ \E idx \in Indices : GetItem(idx)

Spec == Init /\ [][Next]_vars

----------------------------------------------------------------------------
(* One record, any picks: an instance over a file whose single record has any
   pick list of PickLists, read through index 0 *)

ItemInit ==
    /\ \E picks \in PickLists :
          file = (K1 :> Record([t \in 1..RawLen |-> t], picks))
    /\ \E transform \in Hooks, window \in 1..MaxWindow, phases \in PhaseLists,
          offset \in 0..MaxOffset :
          self = Init__(
                [index_to_waveform_id |-> <<K1>>,
                 transform |-> transform,
                 label_shape |-> "gaussian",
                 label_width_in_npts |-> LabelWidth,
                 window_length_in_npts |-> window,
                 phases |-> phases,
                 first_arrival_index_in_final_window_if_no_shift |-> offset,
                 random_stack_two_waveforms_ratio |-> 0])
    /\ made = Config(self)
    /\ opens = 0
    /\ ret = NoCall
    /\ SplitIdle

ItemNext ==
    \/ GetItemWithoutStack(0)
    \/ GetItem(0)

ItemSpec == ItemInit /\ [][ItemNext]_vars

----------------------------------------------------------------------------
(* split_train_test_val_for_ai4eps *)

MaxRows == 4        \* rows of phase_picks.csv
RatioDen == 4       \* ratios are multiples of 1/RatioDen
MaxRuns == 2        \* calls of the splitter

TableKeys == {K1, K2, K3}
Seeds == {0, 3407}

\* phase_picks[["event_id", "station_id"]].drop_duplicates().values: the
\* distinct rows, each where it first occurs
RECURSIVE drop_duplicates(_)
drop_duplicates(rows) ==
    IF rows = <<>> THEN <<>>
    ELSE LET front == drop_duplicates(SubSeq(rows, 1, Len(rows) - 1))
             last == rows[Len(rows)]
         IN  IF PyIn(last, front) THEN front ELSE Append(front, last)

\* np.random.default_rng(seed): a generator made for this call, its state a
\* function of the seed alone.  The bit generator is modelled by a linear
\* congruential generator.
default_rng(seed) == seed

RngNext(state) == (state * 75 + 74) % 65537

Swap(list, i, j) == [list EXCEPT ![i] = list[j], ![j] = list[i]]

\* rng.shuffle(list): for i = n-1 down to 1, swap entry i with entry j drawn
\* from 0..i; here over the first m entries, from generator state st
RECURSIVE shuffle(_, _, _)
shuffle(list, m, st) ==
    IF m <= 1 THEN list
    ELSE LET st1 == RngNext(st)
             j == st1 % m
         IN  shuffle(Swap(list, m, j + 1), m - 1, st1)

\* as SplitPoints, the second point taken from ratio[1] alone
SplitPointsSeparate(r, n) ==
    << (r[1] * n) \div RatioDen, (r[2] * n) \div RatioDen >>

\* the two split points: int(ratio[0]*n) and int((ratio[0]+ratio[1])*n)
SplitPoints(r, n) ==
    << (r[1] * n) \div RatioDen, ((r[1] + r[2]) * n) \div RatioDen >>

\* np.split(list, [i0, i1]): list[:i0], list[i0:i1], list[i1:]
np_split(list, points) ==
    << PySlice(list, 0, points[1]),
       PySlice(list, points[1], points[2]),
       PySlice(list, points[2], Len(list)) >>

split_train_test_val_for_ai4eps(rows, r, seed) ==
    LET unique_event_station_pairs == drop_duplicates(rows)
        shuffled == shuffle(unique_event_station_pairs,
                            Len(unique_event_station_pairs), default_rng(seed))
        parts == np_split(shuffled,
                          SplitPoints(r, Len(unique_event_station_pairs)))
    IN  [train |-> parts[1], test |-> parts[2], val |-> parts[3]]

SplitInit ==
    /\ table \in UNION { [1..n -> TableKeys] : n \in 0..MaxRows }
    /\ ratio \in { r \in (0..RatioDen) \X (0..RatioDen) : r[1] + r[2] <= RatioDen }
    /\ runs = 0
    /\ split = NoSplit
    /\ log = <<>>
    /\ self = NoInstance
    /\ file = TheFile
    /\ opens = 0
    /\ ret = NoCall
    /\ made = NoInstance

\* split_train_test_val_for_ai4eps(data_dir, ratio, seed)
Split(seed) ==
    /\ runs < MaxRuns
    /\ runs' = runs + 1
    /\ LET out == split_train_test_val_for_ai4eps(table, ratio, seed)
       IN  /\ split' = [seed |-> seed, out |-> out]
           /\ log' = IF seed \in DOMAIN log THEN log ELSE (seed :> out) @@ log
    /\ UNCHANGED <<table, ratio, dsVars>>

SplitNext == \E seed \in Seeds : Split(seed)

SplitSpec == SplitInit /\ [][SplitNext]_vars

----------------------------------------------------------------------------
(* Properties of get_item_without_stack and __getitem__, one record *)

IsGet == ret.op \in {"get_item_without_stack", "getitem"}

\* the record the last call asked for
Asked == file[PyIndex(self.index_to_waveform_id, ret.idx)]

HasRecord ==
    /\ IsGet
    /\ PyIndexOk(self.index_to_waveform_id, ret.idx)
    /\ PyIndex(self.index_to_waveform_id, ret.idx) \in DOMAIN file

Offset == self.first_arrival_index_in_final_window_if_no_shift
WindowLength == self.window_length_in_npts

\* the positions of the picks of type ty in a record
PicksOf(rec, ty) == {j \in 1..Len(rec.phase_type) : rec.phase_type[j] = ty}

\* C1: for a record with at least one pick the window is start = r - offset,
\* end = start + window_length, r the minimum of all raw pick indices of the
\* record, canonical or not: r - start is the offset and end - start the
\* window length; these are the bounds get_item_without_stack puts in the
\* sample as start_index and end_index
C1_WindowAlignment ==
    (HasRecord /\ Asked.phase_index # <<>>) =>
        /\ ret.window # <<>>
        /\ \E k \in 1..Len(Asked.phase_index) :
              /\ \A j \in 1..Len(Asked.phase_index) :
                    Asked.phase_index[k] <= Asked.phase_index[j]
              /\ Asked.phase_index[k] - ret.window[1] = Offset
        /\ ret.window[2] - ret.window[1] = WindowLength
        /\ (ret.op = "get_item_without_stack" /\ self.transform = NoHook) =>
              /\ ret.value.start_index = ret.window[1]
              /\ ret.value.end_index = ret.window[2]

\* the earliest pick is of a type outside the canonical list and is not the
\* first one listed
C1_Witness ==
    /\ HasRecord
    /\ ret.op = "get_item_without_stack"
    /\ ret.status = "ok"
    /\ Len(Asked.phase_index) = 2
    /\ Asked.phase_type[2] = "Pn"
    /\ Asked.phase_index[2] < Asked.phase_index[1]
    /\ Offset > 0

\* the scenario of the specification: picks {(P, 500), (S, 900)}, phases
\* [P, S, PS], offset 400, window length 4800
ScenarioWindow ==
    WindowBounds([first_arrival_index_in_final_window_if_no_shift |-> 400,
                  window_length_in_npts |-> 4800],
                 MinIndex(<<500, 900>>).value)

ScenarioPhaseIndex ==
    ExpandedPhaseIndex(<<"P", "S", "PS">>, <<"P", "S">>,
                       <<500 - ScenarioWindow[1], 900 - ScenarioWindow[1]>>)

HookChangesBounds ==
    /\ self.transform # NoHook
    /\ (self.transform.dstart # 0 \/ self.transform.dend # 0)

\* the crop of the waveform the hook returned, and the remapped picks, for a
\* window [start, end)
CroppedAndRemapped(start, end) ==
    /\ ret.value.data.num =
          PySlice([t \in 1..Len(Asked.data) |-> self.transform.gain * Asked.data[t]],
                  start, end)
    /\ \A k \in 1..Len(self.phases) :
          \A j \in PicksOf(Asked, self.phases[k]) :
              (\A i \in PicksOf(Asked, self.phases[k]) : j <= i) =>
                  ret.value.phase_index[k] = Asked.phase_index[j] - start

\* C3 as stated: when the hook returns bounds other than the proposed ones,
\* the crop and the remapping use the bounds the hook returned
C3_HookBoundsUsed ==
    (HasRecord /\ ret.status = "ok" /\ HookChangesBounds) =>
        CroppedAndRemapped(
            PyMin(Asked.phase_index) - Offset + self.transform.dstart,
            PyMin(Asked.phase_index) - Offset + WindowLength + self.transform.dend)

\* C3 amended: when the hook returns bounds other than the proposed ones, the
\* crop (of the waveform the hook returned) and the remapping still use the
\* proposed bounds, start = r - offset and end = start + window_length
C3_ProposedBoundsUsed ==
    (HasRecord /\ ret.status = "ok" /\ HookChangesBounds) =>
        CroppedAndRemapped(
            PyMin(Asked.phase_index) - Offset,
            PyMin(Asked.phase_index) - Offset + WindowLength)

\* a hook moved the bounds, the window lies inside the raw waveform and a
\* canonical phase is picked; the bounds the sample carries are the hook's
C3_Witness ==
    /\ HasRecord
    /\ ret.op = "get_item_without_stack"
    /\ ret.status = "ok"
    /\ HookChangesBounds
    /\ ret.window[1] >= 0
    /\ ret.window[2] <= Len(Asked.data)
    /\ ret.value.start_index # ret.window[1]
    /\ \E k \in 1..Len(self.phases) : ret.value.phase_index[k] # Sentinel

\* C4 as stated: get fails, or returns a waveform of exactly window_length
\* samples from inside the raw waveform; a window reaching outside the raw
\* waveform makes it fail
C4_FullWindowOrError ==
    (HasRecord /\ ret.op = "getitem") =>
        \/ ret.status # "ok"
        \/ /\ Len(ret.value.data.num) = WindowLength
           /\ ret.window[1] >= 0
           /\ ret.window[2] <= Len(Asked.data)

\* C7: for a record without picks get fails with an error before any window
\* is computed, and returns no sample
C7_NoPicksFails ==
    (HasRecord /\ Asked.phase_index = <<>>) =>
        /\ ret.status = "ValueError"
        /\ ret.value = NoSample
        /\ ret.window = <<>>

C7_Witness ==
    /\ HasRecord
    /\ ret.op = "getitem"
    /\ Asked.phase_index = <<>>
    /\ ret.status = "ValueError"

----------------------------------------------------------------------------
(* Properties of the instance across calls *)

\* C5 as stated: get(i) with i outside [0, size()), i = size() and every
\* negative i included, fails with an out-of-range condition and returns no
\* sample; with i inside the range it reads the i-th entry of the index list
C5_OutOfRangeFails ==
    (Constructed /\ ret.op = "getitem") =>
        IF 0 <= ret.idx /\ ret.idx < Len__(self)
        THEN ret.status = "ok" =>
                /\ ret.value.event_id = self.index_to_waveform_id[ret.idx + 1][1]
                /\ ret.value.station_id = self.index_to_waveform_id[ret.idx + 1][2]
        ELSE ret.status = "IndexError" /\ ret.value = NoSample

\* C6 as stated: no instance exists whose offset is at least its window length
C6_OffsetBelowWindow ==
    Constructed => Offset < WindowLength

\* C8: the file is not opened by construction; it is opened by the first
\* call that needs it (a get whose index is valid), and by no other call
\* (size(), a get that fails on its index); it is opened at most once, and
\* once open the handle stays the one it is
C8_HandleLifecycle ==
    [][ /\ (~Constructed /\ Constructed') =>
              (self'._handler = None /\ opens' = opens /\ opens' = 0)
        /\ Constructed' => opens' <= 1
        /\ (Constructed /\ self._handler # None) =>
              (self'._handler = self._handler /\ opens' = opens)
        /\ (Constructed /\ self._handler = None) =>
              /\ (self'._handler # None) <=>
                    (ret'.op \in {"get_item_without_stack", "getitem"}
                        /\ ret'.status # "IndexError")
              /\ (self'._handler # None) => (opens' = 1 /\ ~ret'.warm)
      ]_vars

\* a call made with the file already open succeeded, and the file has been
\* opened once
C8_Witness ==
    /\ Constructed
    /\ IsGet
    /\ ret.warm
    /\ ret.status = "ok"
    /\ self._handler # None
    /\ opens = 1

\* what get(idx) returns as the very first call on the instance as constructed
FirstCall(idx) ==
    getitem([k \in (DOMAIN made) \cup {"_handler"} |->
                IF k = "_handler" THEN None ELSE made[k]],
            file, 0, idx, 0, 0)

\* C10: no call changes the attributes the instance was constructed with, nor
\* the file; the only change to the instance is the handle going from
\* unopened to opened; and with stacking ratio 0 and no hook, get(i) after any
\* calls returns (or raises) what it would as the very first call, the sample
\* without the start_index and end_index keys
C10_SelfContained ==
    [][ (Constructed /\ Constructed') =>
          /\ Config(self') = Config(self)
          /\ Config(self') = made
          /\ file' = file
          /\ (self' # self) => (self._handler = None /\ self'._handler # None)
          /\ (/\ ret'.op = "getitem"
              /\ self.random_stack_two_waveforms_ratio = 0
              /\ self.transform = NoHook) =>
                /\ ret'.status = FirstCall(ret'.idx).status
                /\ ret'.value = FirstCall(ret'.idx).sample
                /\ (ret'.status = "ok") =>
                      (DOMAIN ret'.value) \cap {"start_index", "end_index"} = {}
      ]_vars

\* a get that succeeded on an instance whose file was open already
C10_Witness ==
    /\ Constructed
    /\ self.random_stack_two_waveforms_ratio = 0
    /\ self.transform = NoHook
    /\ ret.op = "getitem"
    /\ ret.status = "ok"
    /\ ret.warm

----------------------------------------------------------------------------
(* Properties of the splitter *)

UniqueKeys == {table[k] : k \in 1..Len(table)}

Members(list) == {list[k] : k \in 1..Len(list)}

====
